---- MODULE Spec2Model ----
(***************************************************************************)
(* Model of the jukebox room coordinator,                                  *)
(* src/jukebox-backend/music_voting_server.ts.                             *)
(*                                                                         *)
(* Every express handler runs to completion on the node event loop, so     *)
(* each handler is one action.  The store is the pair of module-level maps *)
(* rooms and participantRooms.  uuidv4() hands out ids that were never     *)
(* used: nextParticipant and nextSong count them.  Fields of Participant,  *)
(* Song and Vote the handlers only copy (avatar, title, artist, albumArt,  *)
(* duration, spotifyId, joinedAt, addedAt, timestamp) are left out;        *)
(* currentSong is never set.  last records the request served by the       *)
(* latest step, its response and the events handed to pusher.trigger;      *)
(* prev is the store before that step; triggerOutcome is what a call of    *)
(* pusher.trigger does at present.                                         *)
(***************************************************************************)
EXTENDS Integers, Sequences, FiniteSets, TLC

VARIABLES rooms, participantRooms, now, nextParticipant, nextSong, last,
          prev, rankQueue, rankVotes, rankOut, triggerOutcome

vars == <<rooms, participantRooms, now, nextParticipant, nextSong, last,
          prev, rankQueue, rankVotes, rankOut, triggerOutcome>>

storeVars == <<rooms, participantRooms, now, nextParticipant, nextSong, last,
               prev>>

rankVars == <<rankQueue, rankVotes, rankOut>>

----------------------------------------------------------------------------
(* Bounds *)

(* Spec: ids uuidv4 hands out to participants and to songs, and votes a
   room stores. *)
MaxParticipants == 2

MaxSongs == 2

MaxVotes == 3

(* SpecStore: participant ids handed out, and instants past the retention
   window. *)
MaxStoreParticipants == 3

MaxDrift == 1

(* SpecRank: songs in the queue handed to sortQueueByVotes. *)
MaxRankSongs == 3

(* SpecRooms: participant and song ids handed out over both rooms, and votes
   a room stores. *)
MaxRoomsParticipants == 2

MaxRoomsSongs == 2

MaxRoomsVotes == 1

(* SpecSweep: participant and song ids handed out, and votes the room
   stores. *)
MaxSweepParticipants == 2

MaxSweepSongs == 1

MaxSweepVotes == 1

(* SpecPublish: participant and song ids handed out, and votes the room
   stores. *)
MaxPublishParticipants == 2

MaxPublishSongs == 1

MaxPublishVotes == 2

(* Program constants *)

ROOM_TIMEOUT == 24 * 60 * 60 * 1000

(* Values generateRoomCode can return: six upper-case base-36 characters. *)
Codes == {"AAAAAA", "BBBBBB"}

(* Request fields: a name is empty (falsy) or not. *)
Names == {"", "Alice"}

(* The vote field of a request; only up and down pass the check. *)
VoteInputs == {"up", "down", "sideways"}

ParticipantIds == 1 .. MaxParticipants

SongIds == 1 .. MaxSongs

StoreParticipantIds == 1 .. MaxStoreParticipants

RoomsParticipantIds == 1 .. MaxRoomsParticipants

RoomsSongIds == 1 .. MaxRoomsSongs

PublishParticipantIds == 1 .. MaxPublishParticipants

SweepParticipantIds == 1 .. MaxSweepParticipants

SweepSongIds == 1 .. MaxSweepSongs

PublishSongIds == 1 .. MaxPublishSongs

(* An absent participantId (undefined, falsy). *)
NoParticipant == 0

(* The instants at which requests and sweeps are observed: the start, the
   retention window later, and a few milliseconds past it. *)
TimePoints == {0} \cup {ROOM_TIMEOUT + k : k \in 0 .. MaxDrift}

----------------------------------------------------------------------------
(* Map helpers: a JS Map is a function on the set of its keys. *)

MapSet(m, k, v) == [x \in (DOMAIN m) \cup {k} |-> IF x = k THEN v ELSE m[x]]

(* Variant: the entry is deleted from a copy; the map keeps it. *)
MapDeleteFromCopy(m, k) == m

(* map.delete(k) *)
MapDelete(m, k) == [x \in (DOMAIN m) \ {k} |-> m[x]]

(* Variant: the entries are deleted from a copy; the map keeps them. *)
MapDeleteAllFromCopy(m, ks) == m

(* map.delete(k) for every k of ks *)
MapDeleteAll(m, ks) == [x \in (DOMAIN m) \ ks |-> m[x]]

EmptyMap == << >>

----------------------------------------------------------------------------
(* Utility functions *)

(* Variant: the score is the number of up votes. *)
calculateSongScoreUpsOnly(votes) ==
  Cardinality({i \in 1 .. Len(votes) : votes[i].vote = "up"})

RECURSIVE calculateSongScore(_)
calculateSongScore(votes) ==
  IF votes = << >> THEN 0
  ELSE calculateSongScore(SubSeq(votes, 1, Len(votes) - 1))
       + (IF votes[Len(votes)].vote = "up" THEN 1 ELSE -1)

(* votesMap.get(id) || [] *)
VotesGet(votesMap, id) ==
  IF id \in DOMAIN votesMap THEN votesMap[id] ELSE << >>

(* The comparator handed to Array.prototype.sort: scoreB - scoreA. *)
CompareSongs(a, b, votesMap) ==
  calculateSongScore(VotesGet(votesMap, b.id))
  - calculateSongScore(VotesGet(votesMap, a.id))

(* Variant: x is also moved ahead of the elements it compares equal to. *)
RECURSIVE SortInsertBeforeEqual(_, _, _)
SortInsertBeforeEqual(s, x, votesMap) ==
  IF s = << >> THEN <<x>>
  ELSE IF CompareSongs(s[Len(s)], x, votesMap) >= 0
       THEN Append(SortInsertBeforeEqual(SubSeq(s, 1, Len(s) - 1), x, votesMap),
                   s[Len(s)])
       ELSE Append(s, x)

(* Insert x into the sorted run s, after every element that does not
   compare greater than it (the stable insertion Array.prototype.sort
   performs). *)
RECURSIVE SortInsert(_, _, _)
SortInsert(s, x, votesMap) ==
  IF s = << >> THEN <<x>>
  ELSE IF CompareSongs(s[Len(s)], x, votesMap) > 0
       THEN Append(SortInsert(SubSeq(s, 1, Len(s) - 1), x, votesMap), s[Len(s)])
       ELSE Append(s, x)

RECURSIVE SortPrefix(_, _, _)
SortPrefix(queue, n, votesMap) ==
  IF n = 0 THEN << >>
  ELSE SortInsert(SortPrefix(queue, n - 1, votesMap), queue[n], votesMap)

(* [...queue].sort(cmp): a sorted copy; queue itself is not touched. *)
sortQueueByVotes(queue, votesMap) == SortPrefix(queue, Len(queue), votesMap)

----------------------------------------------------------------------------
(* Requests, responses, events *)

(* Variant: one channel for all rooms. *)
ChannelShared(roomId) == "rooms"

(* `room-${roomId}` *)
Channel(roomId) == "room-" \o roomId

(* Variant: every event goes out under one name. *)
EventUntyped(roomId, name, payload) ==
  [channel |-> Channel(roomId), name |-> "room-updated", payload |-> payload]

(* pusher.trigger(channel, name, payload) *)
Event(roomId, name, payload) ==
  [channel |-> Channel(roomId), name |-> name, payload |-> payload]

(* What a step leaves behind: the handler that ran, the request it read
   (req.params, req.body, req.query), res.status(..).json(..) and the
   pusher.trigger calls it made, in order. *)
Reply(op, req, status, error, events, body) ==
  [op |-> op, req |-> req, status |-> status, error |-> error,
   events |-> events, body |-> body]

(* What a call of pusher.trigger does: the event is sent; or the promise
   the call returns is rejected; or the call throws. *)
TriggerOutcomes == {"sent", "rejected", "thrown"}

(* The response of a handler that has changed the store and calls
   pusher.trigger before res.json: no handler looks at the promise trigger
   returns, and a throw lands in the handler's catch block, which answers
   500 with the handler's error text. *)
AfterTrigger(reply, error) ==
  IF triggerOutcome = "thrown"
  THEN [reply EXCEPT !.status = 500, !.error = error, !.body = << >>]
  ELSE reply

NoRequest == << >>

NoBody == << >>

(* The fields each handler reads from its request. *)
CreateRequest(name, creatorName) == [name |-> name, creatorName |-> creatorName]

JoinRequest(roomId, name) == [roomId |-> roomId, name |-> name]

AddSongRequest(roomId, participantId, hasSong) ==
  [roomId |-> roomId, participantId |-> participantId, hasSong |-> hasSong]

VoteRequest(roomId, participantId, songId, vote) ==
  [roomId |-> roomId, participantId |-> participantId, songId |-> songId,
   vote |-> vote]

StateRequest(roomId, participantId) ==
  [roomId |-> roomId, participantId |-> participantId]

LeaveRequest(roomId, participantId) ==
  [roomId |-> roomId, participantId |-> participantId]

(* The two module-level maps. *)
Store == [rooms |-> rooms, participantRooms |-> participantRooms]

NotRanked == [done |-> FALSE, queue |-> << >>]

Init ==
  /\ rooms = EmptyMap
  /\ participantRooms = EmptyMap
  /\ now = 0
  /\ nextParticipant = 1
  /\ nextSong = 1
  /\ last = Reply("init", NoRequest, 0, "", << >>, NoBody)
  /\ prev = [rooms |-> EmptyMap, participantRooms |-> EmptyMap]
  /\ rankQueue = << >>
  /\ rankVotes = EmptyMap
  /\ rankOut = NotRanked
  /\ triggerOutcome = "sent"

----------------------------------------------------------------------------
(* Membership *)

(* Variant: membership is looked up in the index of all rooms. *)
NotIndexed(room, participantId) == participantId \notin DOMAIN participantRooms

(* Variant: membership is not checked. *)
MembershipUnchecked(room, participantId) == FALSE

(* !room.participants.has(participantId) *)
NotParticipant(room, participantId) ==
  participantId \notin DOMAIN room.participants

(* room.participants.get(participantId): undefined, here the empty tuple,
   for an id the map does not hold. *)
ParticipantsGet(room, participantId) ==
  IF participantId \in DOMAIN room.participants
  THEN room.participants[participantId]
  ELSE << >>

(* Variant: the participant the event is about is not counted. *)
ParticipantCountOfOthers(room) == Cardinality(DOMAIN room.participants) - 1

(* room.participants.size *)
ParticipantCount(room) == Cardinality(DOMAIN room.participants)

----------------------------------------------------------------------------
(* POST /api/rooms *)

(* The room object of a response; queue is the queue it is sent with. *)
RoomSnapshot(room, queue) ==
  [id |-> room.id, name |-> room.name,
   participants |-> {room.participants[p] : p \in DOMAIN room.participants},
   queue |-> queue, isActive |-> room.isActive]

CreateRoom(name, creatorName, roomId) ==
  /\ prev' = Store
  /\ IF name = "" \/ creatorName = ""
     THEN /\ last' = Reply("create", CreateRequest(name, creatorName), 400,
                           "Room name and creator name are required",
                           << >>, NoBody)
          /\ UNCHANGED <<rooms, participantRooms, nextParticipant>>
     ELSE LET participantId == nextParticipant
              creator == [id |-> participantId, name |-> creatorName]
              room == [id |-> roomId, name |-> name,
                       createdBy |-> participantId, createdAt |-> now,
                       participants |-> MapSet(EmptyMap, participantId, creator),
                       queue |-> << >>, votes |-> EmptyMap,
                       isActive |-> TRUE]
          IN /\ rooms' = MapSet(rooms, roomId, room)
             /\ participantRooms' = MapSet(participantRooms, participantId, roomId)
             /\ nextParticipant' = nextParticipant + 1
             /\ last' = Reply("create", CreateRequest(name, creatorName), 200,
                              "", << >>,
                              [roomId |-> roomId,
                               participantId |-> participantId,
                               room |-> RoomSnapshot(room, room.queue)])
  /\ UNCHANGED <<now, nextSong, rankVars, triggerOutcome>>

(* roomId is the value generateRoomCode returns, one of codes. *)
Create(codes) ==
  \E name \in Names, creatorName \in Names, roomId \in codes :
    CreateRoom(name, creatorName, roomId)

----------------------------------------------------------------------------
(* POST /api/rooms/:roomId/join *)

(* Variant: only an empty inactive room refuses a join. *)
RoomClosedWhenEmpty(room) ==
  ~room.isActive /\ DOMAIN room.participants = {}

(* if (!room.isActive) *)
RoomClosed(room) == ~room.isActive

JoinRoom(roomId, name) ==
  /\ prev' = Store
  /\ IF name = ""
     THEN /\ last' = Reply("join", JoinRequest(roomId, name), 400,
                           "Name is required", << >>, NoBody)
          /\ UNCHANGED <<rooms, participantRooms, nextParticipant>>
     ELSE IF roomId \notin DOMAIN rooms
     THEN /\ last' = Reply("join", JoinRequest(roomId, name), 404,
                           "Room not found", << >>, NoBody)
          /\ UNCHANGED <<rooms, participantRooms, nextParticipant>>
     ELSE IF RoomClosed(rooms[roomId])
     THEN /\ last' = Reply("join", JoinRequest(roomId, name), 400,
                           "Room is no longer active", << >>, NoBody)
          /\ UNCHANGED <<rooms, participantRooms, nextParticipant>>
     ELSE LET participantId == nextParticipant
              participant == [id |-> participantId, name |-> name]
              room == [rooms[roomId] EXCEPT
                         !.participants = MapSet(@, participantId, participant)]
          IN /\ rooms' = [rooms EXCEPT ![roomId] = room]
             /\ participantRooms' = MapSet(participantRooms, participantId, roomId)
             /\ nextParticipant' = nextParticipant + 1
             /\ last' = AfterTrigger(
                   Reply("join", JoinRequest(roomId, name), 200, "",
                     << Event(roomId, "participant-joined",
                              [participant |-> participant,
                               totalParticipants |->
                                 ParticipantCount(room)]) >>,
                     [participantId |-> participantId,
                      room |-> RoomSnapshot(room,
                                 sortQueueByVotes(room.queue, room.votes))]),
                   "Failed to join room")
  /\ UNCHANGED <<now, nextSong, rankVars, triggerOutcome>>

Join(codes) ==
  \E roomId \in codes, name \in Names : JoinRoom(roomId, name)

----------------------------------------------------------------------------
(* POST /api/rooms/:roomId/queue *)

(* Variant: the song is put at the head of the queue. *)
QueueUnshift(queue, song) == <<song>> \o queue

(* room.queue.push(newSong) *)
QueuePush(queue, song) == Append(queue, song)

(* hasSong is FALSE for a body without a song object: reading song.title
   throws and the catch block answers 500. *)
AddSongToQueue(roomId, participantId, hasSong) ==
  /\ prev' = Store
  /\ IF roomId \notin DOMAIN rooms
     THEN /\ last' = Reply("addSong",
                           AddSongRequest(roomId, participantId, hasSong), 404,
                           "Room not found", << >>, NoBody)
          /\ UNCHANGED <<rooms, nextSong>>
     ELSE IF NotParticipant(rooms[roomId], participantId)
     THEN /\ last' = Reply("addSong",
                           AddSongRequest(roomId, participantId, hasSong), 403,
                           "Not a participant in this room", << >>, NoBody)
          /\ UNCHANGED <<rooms, nextSong>>
     ELSE IF ~hasSong
     THEN /\ last' = Reply("addSong",
                           AddSongRequest(roomId, participantId, hasSong), 500,
                           "Failed to add song to queue", << >>, NoBody)
          /\ UNCHANGED <<rooms, nextSong>>
     ELSE LET newSong == [id |-> nextSong, addedBy |-> participantId]
              room == [rooms[roomId] EXCEPT
                         !.queue = QueuePush(@, newSong),
                         !.votes = MapSet(@, newSong.id, << >>)]
              sortedQueue == sortQueueByVotes(room.queue, room.votes)
          IN /\ rooms' = [rooms EXCEPT ![roomId] = room]
             /\ nextSong' = nextSong + 1
             /\ last' = AfterTrigger(
                   Reply("addSong",
                     AddSongRequest(roomId, participantId, hasSong), 200, "",
                     << Event(roomId, "queue-updated",
                              [queue |-> sortedQueue,
                               addedSong |-> newSong,
                               addedBy |->
                                 ParticipantsGet(room, participantId)]) >>,
                     newSong),
                   "Failed to add song to queue")
  /\ UNCHANGED <<participantRooms, now, nextParticipant, rankVars, triggerOutcome>>

AddSong(codes, pids) ==
  \E roomId \in codes, participantId \in pids, hasSong \in BOOLEAN :
    AddSongToQueue(roomId, participantId, hasSong)

----------------------------------------------------------------------------
(* POST /api/rooms/:roomId/vote *)

(* songVotes.findIndex(v => v.participantId === participantId), counted
   from 1; 0 when there is none. *)
FindVoteIndex(songVotes, participantId) ==
  IF \E i \in 1 .. Len(songVotes) : songVotes[i].participantId = participantId
  THEN CHOOSE i \in 1 .. Len(songVotes) :
         /\ songVotes[i].participantId = participantId
         /\ \A j \in 1 .. (i - 1) : songVotes[j].participantId # participantId
  ELSE 0

(* songVotes.splice(index, 1) *)
Splice(s, index) ==
  SubSeq(s, 1, index - 1) \o SubSeq(s, index + 1, Len(s))

(* Variant: the new vote is pushed without removing the existing one. *)
ReplaceVoteKeepingOld(songVotes, newVote) == Append(songVotes, newVote)

(* The song's vote list after the handler: the participant's existing vote
   is removed, the new vote is pushed. *)
ReplaceVote(songVotes, newVote) ==
  LET existingVoteIndex == FindVoteIndex(songVotes, newVote.participantId)
      kept == IF existingVoteIndex >= 1
              THEN Splice(songVotes, existingVoteIndex)
              ELSE songVotes
  IN Append(kept, newVote)

(* Variant: any non-empty vote passes. *)
IsNonEmptyVote(vote) == vote # ""

(* ['up', 'down'].includes(vote) *)
IsValidVote(vote) == vote \in {"up", "down"}

VoteOnSong(roomId, participantId, songId, vote) ==
  /\ prev' = Store
  /\ IF ~IsValidVote(vote)
     THEN /\ last' = Reply("vote",
                           VoteRequest(roomId, participantId, songId, vote), 400,
                           "Vote must be \"up\" or \"down\"", << >>, NoBody)
          /\ UNCHANGED rooms
     ELSE IF roomId \notin DOMAIN rooms
     THEN /\ last' = Reply("vote",
                           VoteRequest(roomId, participantId, songId, vote), 404,
                           "Room not found", << >>, NoBody)
          /\ UNCHANGED rooms
     ELSE IF NotParticipant(rooms[roomId], participantId)
     THEN /\ last' = Reply("vote",
                           VoteRequest(roomId, participantId, songId, vote), 403,
                           "Not a participant in this room", << >>, NoBody)
          /\ UNCHANGED rooms
     ELSE LET newVote == [participantId |-> participantId, songId |-> songId,
                          vote |-> vote]
              songVotes == ReplaceVote(VotesGet(rooms[roomId].votes, songId),
                                       newVote)
              room == [rooms[roomId] EXCEPT
                         !.votes = MapSet(@, songId, songVotes)]
              sortedQueue == sortQueueByVotes(room.queue, room.votes)
          IN /\ rooms' = [rooms EXCEPT ![roomId] = room]
             /\ last' = AfterTrigger(
                   Reply("vote",
                     VoteRequest(roomId, participantId, songId, vote), 200, "",
                     << Event(roomId, "vote-updated",
                              [songId |-> songId, vote |-> newVote,
                               participant |->
                                 ParticipantsGet(room, participantId),
                               songVotes |-> songVotes,
                               queue |-> sortedQueue]) >>,
                     sortedQueue),
                   "Failed to submit vote")
  /\ UNCHANGED <<participantRooms, now, nextParticipant, nextSong, rankVars, triggerOutcome>>

CastVote(codes, pids, sids) ==
  \E roomId \in codes, participantId \in pids, songId \in sids,
     vote \in VoteInputs :
    VoteOnSong(roomId, participantId, songId, vote)

----------------------------------------------------------------------------
(* GET /api/rooms/:roomId *)

(* sortedQueue.map(song => ({...song, score, votes})) *)
QueueWithVotes(room) ==
  LET sortedQueue == sortQueueByVotes(room.queue, room.votes)
  IN [i \in 1 .. Len(sortedQueue) |->
        [id |-> sortedQueue[i].id, addedBy |-> sortedQueue[i].addedBy,
         score |-> calculateSongScore(VotesGet(room.votes, sortedQueue[i].id)),
         votes |-> VotesGet(room.votes, sortedQueue[i].id)]]

(* Variant: a request without participantId is refused too. *)
StateForbiddenWithoutId(room, participantId) ==
  NotParticipant(room, participantId)

(* if (participantId && !room.participants.has(participantId)) *)
StateForbidden(room, participantId) ==
  /\ participantId # NoParticipant
  /\ NotParticipant(room, participantId)

(* Variant: the room's own queue array is sorted, not a copy of it. *)
RoomStateSortingInPlace(roomId, participantId) ==
  /\ prev' = Store
  /\ IF roomId \notin DOMAIN rooms
     THEN /\ last' = Reply("getRoomState", StateRequest(roomId, participantId),
                           404, "Room not found", << >>, NoBody)
          /\ UNCHANGED rooms
     ELSE IF StateForbidden(rooms[roomId], participantId)
     THEN /\ last' = Reply("getRoomState", StateRequest(roomId, participantId),
                           403, "Not a participant in this room", << >>, NoBody)
          /\ UNCHANGED rooms
     ELSE /\ last' = Reply("getRoomState", StateRequest(roomId, participantId),
                           200, "", << >>,
                           RoomSnapshot(rooms[roomId],
                                        QueueWithVotes(rooms[roomId])))
          /\ rooms' = [rooms EXCEPT
                         ![roomId].queue = sortQueueByVotes(@, rooms[roomId].votes)]
  /\ UNCHANGED <<participantRooms, now, nextParticipant, nextSong, rankVars,
                 triggerOutcome>>

RoomState(roomId, participantId) ==
  /\ prev' = Store
  /\ IF roomId \notin DOMAIN rooms
     THEN last' = Reply("getRoomState", StateRequest(roomId, participantId),
                        404, "Room not found", << >>, NoBody)
     ELSE IF StateForbidden(rooms[roomId], participantId)
     THEN last' = Reply("getRoomState", StateRequest(roomId, participantId),
                        403, "Not a participant in this room", << >>, NoBody)
     ELSE last' = Reply("getRoomState", StateRequest(roomId, participantId),
                        200, "", << >>,
                        RoomSnapshot(rooms[roomId], QueueWithVotes(rooms[roomId])))
  /\ UNCHANGED <<rooms, participantRooms, now, nextParticipant, nextSong,
                 rankVars, triggerOutcome>>

GetRoomState(codes, pids) ==
  \E roomId \in codes, participantId \in pids \cup {NoParticipant} :
    RoomState(roomId, participantId)

----------------------------------------------------------------------------
(* POST /api/rooms/:roomId/leave *)

(* Variant: the filtered lists are computed and thrown away. *)
RemoveVotesDiscarded(votesMap, participantId) == votesMap

(* room.votes.forEach: every list loses the participant's votes. *)
RemoveParticipantVotes(votesMap, participantId) ==
  [songId \in DOMAIN votesMap |->
     SelectSeq(votesMap[songId], LAMBDA v : v.participantId # participantId)]

(* Variant: every leave deactivates the room. *)
DeactivatesOnAnyLeave(room, participantId) == TRUE

(* Variant: only an empty room is deactivated. *)
DeactivatesWhenEmpty(room, participantId) ==
  Cardinality(DOMAIN room.participants) = 0

(* If room is empty or creator left, deactivate room; room is the room
   after the participant was deleted. *)
Deactivates(room, participantId) ==
  \/ Cardinality(DOMAIN room.participants) = 0
  \/ participantId = room.createdBy

(* Variant: the index entry is deleted before the room and the participant
   are looked up. *)
LeaveRoomIndexFirst(roomId, participantId) ==
  /\ prev' = Store
  /\ participantRooms' = MapDelete(participantRooms, participantId)
  /\ IF roomId \notin DOMAIN rooms
     THEN /\ last' = Reply("leave", LeaveRequest(roomId, participantId), 404,
                           "Room not found", << >>, NoBody)
          /\ UNCHANGED rooms
     ELSE IF ParticipantsGet(rooms[roomId], participantId) = << >>
     THEN /\ last' = Reply("leave", LeaveRequest(roomId, participantId), 404,
                           "Participant not found", << >>, NoBody)
          /\ UNCHANGED rooms
     ELSE LET participant == ParticipantsGet(rooms[roomId], participantId)
              removed == [rooms[roomId] EXCEPT
                            !.participants = MapDelete(@, participantId),
                            !.votes = RemoveParticipantVotes(@, participantId)]
              room == IF Deactivates(removed, participantId)
                      THEN [removed EXCEPT !.isActive = FALSE]
                      ELSE removed
          IN /\ rooms' = [rooms EXCEPT ![roomId] = room]
             /\ last' = AfterTrigger(
                   Reply("leave", LeaveRequest(roomId, participantId),
                     200, "",
                     << Event(roomId, "participant-left",
                              [participantId |-> participantId,
                               participant |-> participant,
                               totalParticipants |-> ParticipantCount(room),
                               isActive |-> room.isActive]) >>,
                     NoBody),
                   "Failed to leave room")
  /\ UNCHANGED <<now, nextParticipant, nextSong, rankVars, triggerOutcome>>

LeaveRoom(roomId, participantId) ==
  /\ prev' = Store
  /\ IF roomId \notin DOMAIN rooms
     THEN /\ last' = Reply("leave", LeaveRequest(roomId, participantId), 404,
                           "Room not found", << >>, NoBody)
          /\ UNCHANGED <<rooms, participantRooms>>
     ELSE IF ParticipantsGet(rooms[roomId], participantId) = << >>
     THEN /\ last' = Reply("leave", LeaveRequest(roomId, participantId), 404,
                           "Participant not found", << >>, NoBody)
          /\ UNCHANGED <<rooms, participantRooms>>
     ELSE LET participant == ParticipantsGet(rooms[roomId], participantId)
              removed == [rooms[roomId] EXCEPT
                            !.participants = MapDelete(@, participantId),
                            !.votes = RemoveParticipantVotes(@, participantId)]
              room == IF Deactivates(removed, participantId)
                      THEN [removed EXCEPT !.isActive = FALSE]
                      ELSE removed
          IN /\ rooms' = [rooms EXCEPT ![roomId] = room]
             /\ participantRooms' = MapDelete(participantRooms, participantId)
             /\ last' = AfterTrigger(
                   Reply("leave", LeaveRequest(roomId, participantId),
                     200, "",
                     << Event(roomId, "participant-left",
                              [participantId |-> participantId,
                               participant |-> participant,
                               totalParticipants |-> ParticipantCount(room),
                               isActive |-> room.isActive]) >>,
                     NoBody),
                   "Failed to leave room")
  /\ UNCHANGED <<now, nextParticipant, nextSong, rankVars, triggerOutcome>>

Leave(codes, pids) ==
  \E roomId \in codes, participantId \in pids :
    LeaveRoom(roomId, participantId)

----------------------------------------------------------------------------
(* setInterval cleanup callback *)

(* Variant: only the flag is tested, never the age. *)
ExpiredWhenInactive(room, time) == ~room.isActive

(* Variant: a room is expired as soon as its age reaches the window. *)
ExpiredAtWindow(room, time) ==
  ~room.isActive \/ (time - room.createdAt >= ROOM_TIMEOUT)

(* !room.isActive || (now - room.createdAt > ROOM_TIMEOUT) *)
Expired(room, time) ==
  ~room.isActive \/ (time - room.createdAt > ROOM_TIMEOUT)

(* One run of the callback over all rooms; the body of the reply is the set
   of room ids it logs as cleaned up. *)
ExpirySweep ==
  LET cleaned == {roomId \in DOMAIN rooms : Expired(rooms[roomId], now)}
      members == UNION {DOMAIN rooms[roomId].participants : roomId \in cleaned}
  IN /\ prev' = Store
     /\ rooms' = MapDeleteAll(rooms, cleaned)
     /\ participantRooms' = MapDeleteAll(participantRooms, members)
     /\ last' = Reply("sweep", NoRequest, 0, "", << >>, cleaned)
     /\ UNCHANGED <<now, nextParticipant, nextSong, rankVars, triggerOutcome>>

(* Date.now() advances between requests. *)
Tick ==
  \E t \in TimePoints :
    /\ t > now
    /\ now' = t
    /\ prev' = Store
    /\ last' = Reply("tick", NoRequest, 0, "", << >>, NoBody)
    /\ UNCHANGED <<rooms, participantRooms, nextParticipant, nextSong, rankVars, triggerOutcome>>

----------------------------------------------------------------------------
(* Spec: one room code in use.  generateRoomCode keeps returning the first
   code and every request names it.  Time stands still. *)

FirstCode == {"AAAAAA"}

(* Number of votes a room stores, over all songs. *)
StoredVotes(room) ==
  Cardinality(UNION {{<<songId, i>> : i \in 1 .. Len(room.votes[songId])} :
                       songId \in DOMAIN room.votes})

(* The part of the state space explored. *)
WithinBounds ==
  /\ nextParticipant <= MaxParticipants + 1
  /\ nextSong <= MaxSongs + 1
  /\ \A roomId \in DOMAIN rooms : StoredVotes(rooms[roomId]) <= MaxVotes

CreateFirst == Create(FirstCode) /\ WithinBounds'

JoinFirst == Join(FirstCode) /\ WithinBounds'

AddSongFirst == AddSong(FirstCode, ParticipantIds) /\ WithinBounds'

CastVoteFirst == CastVote(FirstCode, ParticipantIds, SongIds) /\ WithinBounds'

GetRoomStateFirst == GetRoomState(FirstCode, ParticipantIds)

LeaveFirst == Leave(FirstCode, ParticipantIds)

Next ==
  \/ CreateFirst
  \/ JoinFirst
  \/ AddSongFirst
  \/ CastVoteFirst
  \/ GetRoomStateFirst
  \/ LeaveFirst

Spec == Init /\ [][Next]_vars

----------------------------------------------------------------------------
(* SpecStore: the whole store, with both codes, the clock and the cleanup
   timer; rooms hold participants only. *)

WithinStoreBounds == nextParticipant <= MaxStoreParticipants + 1

CreateAny == Create(Codes) /\ WithinStoreBounds'

JoinAny == Join(Codes) /\ WithinStoreBounds'

GetRoomStateAny == GetRoomState(Codes, StoreParticipantIds)

LeaveAny == Leave(Codes, StoreParticipantIds)

NextStore ==
  \/ CreateAny
  \/ JoinAny
  \/ GetRoomStateAny
  \/ LeaveAny
  \/ ExpirySweep
  \/ Tick

SpecStore == Init /\ [][NextStore]_vars

----------------------------------------------------------------------------
(* SpecRooms: two room codes and all six handlers; time stands still. *)

WithinRoomsBounds ==
  /\ nextParticipant <= MaxRoomsParticipants + 1
  /\ nextSong <= MaxRoomsSongs + 1
  /\ \A roomId \in DOMAIN rooms : StoredVotes(rooms[roomId]) <= MaxRoomsVotes

CreateBoth == Create(Codes) /\ WithinRoomsBounds'

JoinBoth == Join(Codes) /\ WithinRoomsBounds'

AddSongBoth == AddSong(Codes, RoomsParticipantIds) /\ WithinRoomsBounds'

CastVoteBoth ==
  CastVote(Codes, RoomsParticipantIds, RoomsSongIds) /\ WithinRoomsBounds'

GetRoomStateBoth == GetRoomState(Codes, RoomsParticipantIds)

LeaveBoth == Leave(Codes, RoomsParticipantIds)

NextRooms ==
  \/ CreateBoth
  \/ JoinBoth
  \/ AddSongBoth
  \/ CastVoteBoth
  \/ GetRoomStateBoth
  \/ LeaveBoth

SpecRooms == Init /\ [][NextRooms]_vars

----------------------------------------------------------------------------
(* SpecPublish: one room code; calls of pusher.trigger can fail. *)

WithinPublishBounds ==
  /\ nextParticipant <= MaxPublishParticipants + 1
  /\ nextSong <= MaxPublishSongs + 1
  /\ \A roomId \in DOMAIN rooms : StoredVotes(rooms[roomId]) <= MaxPublishVotes

(* The connection to Pusher changes: from here on a call of pusher.trigger
   has another outcome. *)
PusherTurns ==
  \E outcome \in TriggerOutcomes :
    /\ outcome # triggerOutcome
    /\ triggerOutcome' = outcome
    /\ prev' = Store
    /\ last' = Reply("pusher", NoRequest, 0, "", << >>, NoBody)
    /\ UNCHANGED <<rooms, participantRooms, now, nextParticipant, nextSong,
                   rankVars>>

CreatePublishing == Create(FirstCode) /\ WithinPublishBounds'

JoinPublishing == Join(FirstCode) /\ WithinPublishBounds'

AddSongPublishing ==
  AddSong(FirstCode, PublishParticipantIds) /\ WithinPublishBounds'

CastVotePublishing ==
  CastVote(FirstCode, PublishParticipantIds, PublishSongIds)
    /\ WithinPublishBounds'

LeavePublishing == Leave(FirstCode, PublishParticipantIds)

NextPublish ==
  \/ CreatePublishing
  \/ JoinPublishing
  \/ AddSongPublishing
  \/ CastVotePublishing
  \/ LeavePublishing
  \/ PusherTurns

SpecPublish == Init /\ [][NextPublish]_vars

----------------------------------------------------------------------------
(* SpecSweep: one room code, the clock and the cleanup timer next to the
   handlers that change a room.  SpecSweepFair adds that the clock advances
   and the timer keeps firing. *)

WithinSweepBounds ==
  /\ nextParticipant <= MaxSweepParticipants + 1
  /\ nextSong <= MaxSweepSongs + 1
  /\ \A roomId \in DOMAIN rooms : StoredVotes(rooms[roomId]) <= MaxSweepVotes

CreateSwept == Create(FirstCode) /\ WithinSweepBounds'

JoinSwept == Join(FirstCode) /\ WithinSweepBounds'

AddSongSwept == AddSong(FirstCode, SweepParticipantIds) /\ WithinSweepBounds'

CastVoteSwept ==
  CastVote(FirstCode, SweepParticipantIds, SweepSongIds) /\ WithinSweepBounds'

LeaveSwept == Leave(FirstCode, SweepParticipantIds)

NextSweep ==
  \/ CreateSwept
  \/ JoinSwept
  \/ AddSongSwept
  \/ CastVoteSwept
  \/ LeaveSwept
  \/ ExpirySweep
  \/ Tick

SpecSweep == Init /\ [][NextSweep]_vars

SpecSweepFair == SpecSweep /\ WF_vars(Tick) /\ WF_vars(ExpirySweep)

----------------------------------------------------------------------------
(* SpecRank: sortQueueByVotes on every queue of up to MaxRankSongs songs with
   distinct ids and every votes map over those ids. *)

RankSongIds == 1 .. MaxRankSongs

RankSongs == {[id |-> i, addedBy |-> 1] : i \in RankSongIds}

IsInjective(s) == \A i, j \in DOMAIN s : s[i] = s[j] => i = j

RankQueues ==
  {q \in UNION {[1 .. n -> RankSongs] : n \in 0 .. MaxRankSongs} : IsInjective(q)}

(* The directions of a song's votes, in list order. *)
RankDirections ==
  {<< >>, <<"up">>, <<"down">>, <<"up", "up">>, <<"up", "down">>,
   <<"down", "up">>, <<"down", "down">>}

RankVoteList(songId, directions) ==
  [i \in 1 .. Len(directions) |->
     [participantId |-> i, songId |-> songId, vote |-> directions[i]]]

RankVoteMaps ==
  UNION {{[songId \in ids |-> RankVoteList(songId, d[songId])] :
            d \in [ids -> RankDirections]} : ids \in SUBSET RankSongIds}

InitRank ==
  /\ rooms = EmptyMap
  /\ participantRooms = EmptyMap
  /\ now = 0
  /\ nextParticipant = 1
  /\ nextSong = 1
  /\ last = Reply("init", NoRequest, 0, "", << >>, NoBody)
  /\ prev = [rooms |-> EmptyMap, participantRooms |-> EmptyMap]
  /\ rankQueue \in RankQueues
  /\ rankVotes \in RankVoteMaps
  /\ rankOut = NotRanked
  /\ triggerOutcome = "sent"

Rank ==
  /\ ~rankOut.done
  /\ rankOut' = [done |-> TRUE, queue |-> sortQueueByVotes(rankQueue, rankVotes)]
  /\ UNCHANGED <<storeVars, rankQueue, rankVotes, triggerOutcome>>

NextRank == Rank

SpecRank == InitRank /\ [][NextRank]_vars

----------------------------------------------------------------------------
(* Properties *)

UpVotes(votes) ==
  Cardinality({i \in 1 .. Len(votes) : votes[i].vote = "up"})

DownVotes(votes) ==
  Cardinality({i \in 1 .. Len(votes) : votes[i].vote = "down"})

VotesOfOthers(votes, participantId) ==
  SelectSeq(votes, LAMBDA v : v.participantId # participantId)

Direction(vote) == IF vote = "up" THEN 1 ELSE -1

LastOk(op) == last.op = op /\ last.status = 200

(* C1: every vote list of every room holds at most one vote per participant,
   and after a successful castVote the voter's single vote on that song has
   the direction of this call, the song's score being the score of the
   others' votes plus this one vote. *)
C1_OneVotePerParticipant ==
  /\ \A r \in DOMAIN rooms : \A s \in DOMAIN rooms[r].votes :
       \A i, j \in 1 .. Len(rooms[r].votes[s]) :
         rooms[r].votes[s][i].participantId = rooms[r].votes[s][j].participantId
           => i = j
  /\ LastOk("vote") =>
       LET r == last.req.roomId
           p == last.req.participantId
           s == last.req.songId
           before == VotesGet(prev.rooms[r].votes, s)
           list == VotesGet(rooms[r].votes, s)
       IN /\ Cardinality({i \in 1 .. Len(list) : list[i].participantId = p}) = 1
          /\ \A i \in 1 .. Len(list) :
               list[i].participantId = p => list[i].vote = last.req.vote
          /\ calculateSongScore(list)
               = calculateSongScore(VotesOfOthers(before, p))
                 + Direction(last.req.vote)

(* A castVote that replaced the voter's earlier, opposite vote on a song
   another participant has voted on too. *)
C1_Witness ==
  /\ LastOk("vote")
  /\ LET before == VotesGet(prev.rooms[last.req.roomId].votes, last.req.songId)
     IN /\ \E i \in 1 .. Len(before) :
             /\ before[i].participantId = last.req.participantId
             /\ before[i].vote # last.req.vote
        /\ \E i \in 1 .. Len(before) :
             before[i].participantId # last.req.participantId

(* The same Room object: the creator's id is unique to it. *)
SameRoom(c) ==
  /\ c \in DOMAIN prev.rooms
  /\ c \in DOMAIN rooms
  /\ prev.rooms[c].createdBy = rooms[c].createdBy

(* C2: across every step, a stored room's isActive turns from true to false
   exactly when the step is a successful leave on that room that removes its
   creator or its last participant, and it never turns from false to true. *)
C2_ActiveFlag ==
  \A c \in Codes :
    SameRoom(c) =>
      LET deactivating ==
            /\ LastOk("leave")
            /\ last.req.roomId = c
            /\ \/ last.req.participantId = prev.rooms[c].createdBy
               \/ DOMAIN rooms[c].participants = {}
      IN /\ (prev.rooms[c].isActive /\ ~rooms[c].isActive)
              <=> (prev.rooms[c].isActive /\ deactivating)
         /\ ~prev.rooms[c].isActive => ~rooms[c].isActive

(* The creator left an active room in which another participant remains. *)
C2_Witness ==
  /\ LastOk("leave")
  /\ LET c == last.req.roomId
     IN /\ prev.rooms[c].isActive
        /\ ~rooms[c].isActive
        /\ last.req.participantId = prev.rooms[c].createdBy
        /\ DOMAIN rooms[c].participants # {}

(* C3: right after a successful leave, no vote list of the room holds a vote
   of the departed participant, and every song's score is the score of the
   votes the others had cast. *)
C3_LeavePurgesVotes ==
  LastOk("leave") =>
    LET r == last.req.roomId
        p == last.req.participantId
    IN \A s \in DOMAIN rooms[r].votes :
         /\ \A i \in 1 .. Len(rooms[r].votes[s]) :
              rooms[r].votes[s][i].participantId # p
         /\ calculateSongScore(rooms[r].votes[s])
              = calculateSongScore(VotesOfOthers(prev.rooms[r].votes[s], p))

(* The departed participant had voted on two songs, one of them a song that
   keeps another participant's vote. *)
C3_Witness ==
  /\ LastOk("leave")
  /\ LET r == last.req.roomId
         p == last.req.participantId
         voted == {s \in DOMAIN prev.rooms[r].votes :
                     \E i \in 1 .. Len(prev.rooms[r].votes[s]) :
                       prev.rooms[r].votes[s][i].participantId = p}
     IN /\ Cardinality(voted) >= 2
        /\ \E s \in voted : rooms[r].votes[s] # << >>

(* The retention window of the cleanup: 24 hours, in milliseconds. *)
RetentionWindow == 24 * 60 * 60 * 1000

(* C4: a sweep at time now deletes exactly the stored rooms that are
   inactive or older than the retention window, leaves every other room as
   it was, and leaves no index entry for a participant of a deleted room. *)
C4_SweepDeletesExpired ==
  last.op = "sweep" =>
    /\ DOMAIN rooms \subseteq DOMAIN prev.rooms
    /\ \A c \in DOMAIN prev.rooms :
         c \notin DOMAIN rooms
           <=> \/ ~prev.rooms[c].isActive
               \/ now - prev.rooms[c].createdAt > RetentionWindow
    /\ \A c \in DOMAIN rooms : rooms[c] = prev.rooms[c]
    /\ \A c \in DOMAIN prev.rooms \ DOMAIN rooms :
         \A p \in DOMAIN prev.rooms[c].participants :
           p \notin DOMAIN participantRooms

(* One sweep deleted an active room older than the window, whose participants
   were indexed, and kept a younger active room. *)
C4_Witness ==
  /\ last.op = "sweep"
  /\ \E c, d \in DOMAIN prev.rooms :
       /\ prev.rooms[c].isActive
       /\ c \notin DOMAIN rooms
       /\ \E p \in DOMAIN prev.rooms[c].participants :
            p \in DOMAIN prev.participantRooms
       /\ d \in DOMAIN rooms
       /\ rooms[d].isActive

(* C5: a successful create stores its room under a code no stored room had,
   and every room stored before is still stored, unchanged. *)
C5_CreateUsesFreshCode ==
  LastOk("create") =>
    /\ last.body.roomId \notin DOMAIN prev.rooms
    /\ \A c \in DOMAIN prev.rooms :
         c \in DOMAIN rooms /\ rooms[c] = prev.rooms[c]

Mutations == {"create", "join", "addSong", "vote", "leave"}

(* The code of the room a successful mutation changed. *)
MutatedRoom ==
  IF last.op = "create" THEN last.body.roomId ELSE last.req.roomId

PublishedOnceOn(c) ==
  /\ Len(last.events) = 1
  /\ last.events[1].channel = "room-" \o c

(* C6 as stated: every successful create, join, addSong, castVote and leave
   publishes exactly one event, on the channel of the room it changed. *)
C6_EveryMutationPublishesOnce ==
  (last.op \in Mutations /\ last.status = 200) => PublishedOnceOn(MutatedRoom)

(* C6, amended: every successful join, addSong, castVote and leave publishes
   exactly one event, on the channel of the room it names, which is the only
   room it changed; a successful create publishes no event. *)
C6_MutationsButCreatePublishOnce ==
  /\ (last.op \in Mutations \ {"create"} /\ last.status = 200) =>
       /\ PublishedOnceOn(last.req.roomId)
       /\ \A c \in DOMAIN rooms \cup DOMAIN prev.rooms :
            c # last.req.roomId =>
              /\ c \in DOMAIN rooms
              /\ c \in DOMAIN prev.rooms
              /\ rooms[c] = prev.rooms[c]
  /\ LastOk("create") => last.events = << >>

(* A leave that changed its room and published participant-left. *)
C6_Witness ==
  /\ LastOk("leave")
  /\ rooms[last.req.roomId] # prev.rooms[last.req.roomId]
  /\ Len(last.events) = 1
  /\ last.events[1].name = "participant-left"

RankScore(song) == calculateSongScore(VotesGet(rankVotes, song.id))

(* Position of a song in the queue handed to sortQueueByVotes. *)
RankPosition(song) == CHOOSE i \in 1 .. Len(rankQueue) : rankQueue[i] = song

(* C7: sortQueueByVotes returns a permutation of the queue with scores
   non-increasing, songs of equal score keeping their order in the queue. *)
C7_RankStableDescending ==
  rankOut.done =>
    LET out == rankOut.queue
    IN /\ Len(out) = Len(rankQueue)
       /\ {out[i] : i \in 1 .. Len(out)}
            = {rankQueue[i] : i \in 1 .. Len(rankQueue)}
       /\ \A i, j \in 1 .. Len(out) :
            i < j =>
              /\ RankScore(out[i]) >= RankScore(out[j])
              /\ RankScore(out[i]) = RankScore(out[j])
                   => RankPosition(out[i]) < RankPosition(out[j])

(* Three songs: the last one queued scores highest and is ranked first, the
   other two tie and keep their order. *)
C7_Witness ==
  /\ rankOut.done
  /\ Len(rankQueue) = 3
  /\ rankOut.queue = <<rankQueue[3], rankQueue[1], rankQueue[2]>>
  /\ RankScore(rankQueue[1]) = RankScore(rankQueue[2])
  /\ RankScore(rankQueue[1]) # 0

(* C8: every song's score is its stored up votes minus its stored down votes,
   0 without votes or without a votes entry; the comparator of the ranking
   and the scores getRoomState reports are that number. *)
C8_ScoreIsUpsMinusDowns ==
  /\ \A r \in DOMAIN rooms : \A s \in SongIds :
       LET votes == VotesGet(rooms[r].votes, s)
       IN /\ calculateSongScore(votes) = UpVotes(votes) - DownVotes(votes)
          /\ votes = << >> => calculateSongScore(votes) = 0
  /\ \A r \in DOMAIN rooms :
       \A i, j \in 1 .. Len(rooms[r].queue) :
         LET a == rooms[r].queue[i]
             b == rooms[r].queue[j]
             va == VotesGet(rooms[r].votes, a.id)
             vb == VotesGet(rooms[r].votes, b.id)
         IN CompareSongs(a, b, rooms[r].votes)
              = (UpVotes(vb) - DownVotes(vb)) - (UpVotes(va) - DownVotes(va))
  /\ LastOk("getRoomState") =>
       \A i \in 1 .. Len(last.body.queue) :
         LET votes == VotesGet(rooms[last.req.roomId].votes, last.body.queue[i].id)
         IN last.body.queue[i].score = UpVotes(votes) - DownVotes(votes)

(* getRoomState reported a song whose votes are one up and one down next to
   a song with a single down vote. *)
C8_Witness ==
  /\ LastOk("getRoomState")
  /\ \E i, j \in 1 .. Len(last.body.queue) :
       /\ Len(last.body.queue[i].votes) = 2
       /\ last.body.queue[i].score = 0
       /\ last.body.queue[j].score = -1

(* C9: a join naming a stored inactive room fails, with "Room is no longer
   active" once the request has a name, adds no participant and no index
   entry and publishes nothing; and a room whose creator has left is
   inactive, whoever remains. *)
C9_JoinInactiveFails ==
  /\ (/\ last.op = "join"
      /\ last.req.roomId \in DOMAIN prev.rooms
      /\ ~prev.rooms[last.req.roomId].isActive) =>
       /\ last.status = 400
       /\ last.req.name # "" => last.error = "Room is no longer active"
       /\ rooms = prev.rooms
       /\ participantRooms = prev.participantRooms
       /\ last.events = << >>
  /\ \A c \in DOMAIN rooms :
       rooms[c].createdBy \notin DOMAIN rooms[c].participants
         => ~rooms[c].isActive

(* A join refused on a room the creator has left and another participant is
   still in. *)
C9_Witness ==
  /\ last.op = "join"
  /\ last.error = "Room is no longer active"
  /\ LET room == rooms[last.req.roomId]
     IN /\ room.createdBy \notin DOMAIN room.participants
        /\ DOMAIN room.participants # {}

(* C10: an addSong or castVote by a member of an inactive room fails with
   "Room is no longer active" and leaves the queue and the votes as they
   were. *)
C10_MutationOnInactiveFails ==
  (/\ \/ last.op = "addSong" /\ last.req.hasSong
      \/ last.op = "vote" /\ last.req.vote \in {"up", "down"}
   /\ last.req.roomId \in DOMAIN prev.rooms
   /\ ~prev.rooms[last.req.roomId].isActive
   /\ last.req.participantId \in DOMAIN prev.rooms[last.req.roomId].participants)
    =>
     /\ last.error = "Room is no longer active"
     /\ rooms[last.req.roomId].queue = prev.rooms[last.req.roomId].queue
     /\ rooms[last.req.roomId].votes = prev.rooms[last.req.roomId].votes

(* The ids of the songs in a queue. *)
QueuedSongIds(room) == {room.queue[i].id : i \in 1 .. Len(room.queue)}

(* C11: every key of a room's votes map is the id of a song in the room's
   queue, songs never leaving a queue; a castVote naming a song id that was
   never added creates no votes entry. *)
C11_VotesKeysAreQueuedSongs ==
  \A r \in DOMAIN rooms : DOMAIN rooms[r].votes \subseteq QueuedSongIds(rooms[r])

(* The one event a step published describes the change this step made to
   the room the request names. *)
EventOfThisStep ==
  LET r == last.req.roomId
      e == last.events[1]
      before == prev.rooms[r]
      after == rooms[r]
  IN /\ Len(last.events) = 1
     /\ e.channel = "room-" \o r
     /\ last.op = "join" =>
          /\ e.name = "participant-joined"
          /\ e.payload.participant.id \notin DOMAIN before.participants
          /\ after = [before EXCEPT
                        !.participants = MapSet(@, e.payload.participant.id,
                                                e.payload.participant)]
     /\ last.op = "addSong" =>
          /\ e.name = "queue-updated"
          /\ after = [before EXCEPT
                        !.queue = Append(@, e.payload.addedSong),
                        !.votes = MapSet(@, e.payload.addedSong.id, << >>)]
     /\ last.op = "vote" =>
          /\ e.name = "vote-updated"
          /\ e.payload.songVotes # << >>
          /\ e.payload.songVotes[Len(e.payload.songVotes)] = e.payload.vote
          /\ e.payload.vote.participantId = last.req.participantId
          /\ after = [before EXCEPT
                        !.votes = MapSet(@, e.payload.songId,
                                         e.payload.songVotes)]
     /\ last.op = "leave" =>
          /\ e.name = "participant-left"
          /\ e.payload.participantId \in DOMAIN before.participants
          /\ e.payload.participantId \notin DOMAIN after.participants
          /\ after # before

(* C12: a step publishes an event only when it is a join, addSong, castVote
   or leave that has just changed the room, the event being the one that
   describes this change, and a step that changes a stored room publishes in
   the same step; so the events of a channel are published in the order in
   which the mutations were applied, whichever participants the requests
   come from. *)
C12_EventsInMutationOrder ==
  /\ last.events # << >> =>
       /\ last.op \in Mutations \ {"create"}
       /\ last.status = 200
       /\ EventOfThisStep
  /\ \A c \in Codes :
       (SameRoom(c) /\ rooms[c] # prev.rooms[c]) =>
         /\ last.events # << >>
         /\ last.req.roomId = c

(* A participant who is not the creator added a song to a queue that holds
   another participant's song and a vote: requests of two participants
   interleaved on the room. *)
C12_Witness ==
  /\ LastOk("addSong")
  /\ LET before == prev.rooms[last.req.roomId]
     IN /\ last.req.participantId # before.createdBy
        /\ \E i \in 1 .. Len(before.queue) :
             before.queue[i].addedBy # last.req.participantId
        /\ \E s \in DOMAIN before.votes : before.votes[s] # << >>
        /\ last.events[1].payload.addedSong.addedBy = last.req.participantId

(* The change the request of the latest step asks for is in the store. *)
MutationApplied ==
  LET r == last.req.roomId
      p == last.req.participantId
  IN /\ r \in DOMAIN rooms
     /\ r \in DOMAIN prev.rooms
     /\ last.op = "join" =>
          /\ (nextParticipant - 1) \in DOMAIN rooms[r].participants
          /\ (nextParticipant - 1) \notin DOMAIN prev.rooms[r].participants
          /\ (nextParticipant - 1) \in DOMAIN participantRooms
     /\ last.op = "addSong" =>
          Len(rooms[r].queue) = Len(prev.rooms[r].queue) + 1
     /\ last.op = "vote" =>
          /\ last.req.songId \in DOMAIN rooms[r].votes
          /\ \E i \in 1 .. Len(rooms[r].votes[last.req.songId]) :
               rooms[r].votes[last.req.songId][i]
                 = [participantId |-> p, songId |-> last.req.songId,
                    vote |-> last.req.vote]
     /\ last.op = "leave" =>
          /\ p \in DOMAIN prev.rooms[r].participants
          /\ p \notin DOMAIN rooms[r].participants

(* C13: when the pusher.trigger call of a join, addSong, castVote or leave
   fails, the state change of the request stays applied and the response is
   the success response. *)
C13_PublishFailureKeepsSuccess ==
  (/\ last.op \in {"join", "addSong", "vote", "leave"}
   /\ last.events # << >>
   /\ triggerOutcome # "sent")
    => /\ MutationApplied
       /\ last.status = 200

(* The ranking of the queue and votes a room stores. *)
Ranking(room) == sortQueueByVotes(room.queue, room.votes)

(* C14: after a successful addSong, castVote or leave on a room with a
   non-empty queue, the ranked queue of the latest event of the room's
   channel that carries one is the ranking of the room's queue and votes:
   the event of this step carries that ranking, or it carries no queue and
   the ranking published before, that of the room before the step, still
   is the ranking of the room. *)
C14_LatestEventCarriesRanking ==
  (/\ last.op \in {"addSong", "vote", "leave"}
   /\ last.status = 200
   /\ rooms[last.req.roomId].queue # << >>)
    => LET r == last.req.roomId
           payload == last.events[1].payload
       IN IF "queue" \in DOMAIN payload
          THEN payload.queue = Ranking(rooms[r])
          ELSE Ranking(rooms[r]) = Ranking(prev.rooms[r])

Operations == {"create", "join", "addSong", "vote", "leave", "getRoomState"}

(* C15: a request answered with a validation error, a not-found error, a
   forbidden error or the inactive-room error (status 400, 404 or 403) leaves
   rooms and participantRooms as they were and publishes no event. *)
C15_ErrorsChangeNothing ==
  (last.op \in Operations /\ last.status \in {400, 403, 404}) =>
    /\ rooms = prev.rooms
    /\ participantRooms = prev.participantRooms
    /\ last.events = << >>

(* A castVote on a room with a queued song was refused with 403, the voter
   being a participant of the other room. *)
C15_Witness ==
  /\ last.op = "vote"
  /\ last.status = 403
  /\ rooms[last.req.roomId].queue # << >>
  /\ last.req.participantId \in DOMAIN participantRooms
  /\ participantRooms[last.req.participantId] # last.req.roomId
  /\ participantRooms[last.req.participantId] \in DOMAIN rooms

(* The fields of a room other rooms' requests must leave alone. *)
RoomCore(room) ==
  [participants |-> room.participants, queue |-> room.queue,
   votes |-> room.votes, isActive |-> room.isActive]

(* C16: a join, addSong, castVote, leave or getRoomState naming room R leaves
   every other stored room stored, with its participants, queue, votes and
   isActive as they were; and an addSong or a valid castVote on a stored
   room R by a participant id that is a member of another room only is
   answered 403 "Not a participant in this room". *)
C16_RoomsAreIndependent ==
  /\ last.op \in Operations \ {"create"} =>
       \A c \in DOMAIN prev.rooms :
         c # last.req.roomId =>
           /\ c \in DOMAIN rooms
           /\ RoomCore(rooms[c]) = RoomCore(prev.rooms[c])
  /\ (/\ \/ last.op = "addSong"
         \/ last.op = "vote" /\ last.req.vote \in {"up", "down"}
      /\ last.req.roomId \in DOMAIN prev.rooms
      /\ last.req.participantId
           \notin DOMAIN prev.rooms[last.req.roomId].participants
      /\ \E c \in DOMAIN prev.rooms :
           last.req.participantId \in DOMAIN prev.rooms[c].participants)
       => /\ last.status = 403
          /\ last.error = "Not a participant in this room"
          /\ rooms = prev.rooms

(* An addSong on a room was refused for the creator of the other room, which
   holds a song and a vote; both rooms are active. *)
C16_Witness ==
  /\ last.op = "addSong"
  /\ last.status = 403
  /\ \E c \in DOMAIN rooms :
       /\ c # last.req.roomId
       /\ rooms[c].createdBy = last.req.participantId
       /\ rooms[c].queue # << >>
       /\ \E s \in DOMAIN rooms[c].votes : rooms[c].votes[s] # << >>
       /\ rooms[c].isActive
       /\ rooms[last.req.roomId].isActive

(* C17: getRoomState answers 404 exactly when the room code is not stored,
   403 exactly when the room is stored and a participant id is supplied that
   is not a member of it, and 200 otherwise, with the state of the room; in
   every case rooms and participantRooms stay as they were and no event is
   published. *)
C17_GetRoomStateOutcome ==
  last.op = "getRoomState" =>
    LET r == last.req.roomId
        p == last.req.participantId
        stored == r \in DOMAIN prev.rooms
        member == stored /\ p \in DOMAIN prev.rooms[r].participants
    IN /\ (last.status = 404 /\ last.error = "Room not found") <=> ~stored
       /\ (last.status = 403 /\ last.error = "Not a participant in this room")
            <=> (stored /\ p # NoParticipant /\ ~member)
       /\ last.status = 200 <=> (stored /\ (p = NoParticipant \/ member))
       /\ last.status = 200 =>
            /\ last.body.id = r
            /\ last.body.isActive = prev.rooms[r].isActive
            /\ Cardinality(last.body.participants)
                 = Cardinality(DOMAIN prev.rooms[r].participants)
       /\ rooms = prev.rooms
       /\ participantRooms = prev.participantRooms
       /\ last.events = << >>

(* A request without participant id was answered with the state of an
   inactive room that still has a participant. *)
C17_Witness ==
  /\ LastOk("getRoomState")
  /\ last.req.participantId = NoParticipant
  /\ ~last.body.isActive
  /\ last.body.participants # {}

Allocated == 1 .. (nextParticipant - 1)

(* C18: a leave naming a room that is not stored, or a participant id that
   is not a member of the room, is answered 404 and changes nothing; after a
   successful leave the participant is neither in the room nor in the index,
   and an id that was handed out and is not in a room never enters it; a
   leave repeated right after a successful one is answered 404 and leaves
   the store as the first one left it. *)
C18_LeaveNotFound ==
  /\ [](/\ (/\ last.op = "leave"
            /\ \/ last.req.roomId \notin DOMAIN prev.rooms
               \/ last.req.participantId
                    \notin DOMAIN prev.rooms[last.req.roomId].participants)
             => /\ last.status = 404
                /\ rooms = prev.rooms
                /\ participantRooms = prev.participantRooms
                /\ last.events = << >>
        /\ LastOk("leave") =>
             /\ last.req.participantId
                  \notin DOMAIN rooms[last.req.roomId].participants
             /\ last.req.participantId \notin DOMAIN participantRooms)
  /\ [][/\ \A c \in DOMAIN rooms \cap DOMAIN rooms' :
             \A p \in Allocated :
               p \notin DOMAIN rooms[c].participants
                 => p \notin DOMAIN rooms'[c].participants
        /\ (LastOk("leave") /\ last'.op = "leave" /\ last'.req = last.req)
             => /\ last'.status = 404
                /\ rooms' = rooms
                /\ participantRooms' = participantRooms]_vars

(* The creator of a room, who had left it to another participant whose vote
   the room stores, called leave again and got "Participant not found". *)
C18_Witness ==
  /\ last.op = "leave"
  /\ last.error = "Participant not found"
  /\ LET room == rooms[last.req.roomId]
     IN /\ last.req.participantId = room.createdBy
        /\ ~room.isActive
        /\ DOMAIN room.participants # {}
        /\ \E s \in DOMAIN room.votes : room.votes[s] # << >>

(* C19: the participant-joined event of a join carries the new participant
   and the number of participants the room has after the join; the
   participant-left event of a leave carries the participant removed, the
   number of participants that remain, and isActive as the room has it
   after the deactivation rule: false once the creator has left or nobody
   remains. *)
C19_MembershipEventPayloads ==
  /\ LastOk("join") =>
       LET r == last.req.roomId
           e == last.events[1]
       IN /\ e.name = "participant-joined"
          /\ e.payload.participant.id = last.body.participantId
          /\ e.payload.participant = rooms[r].participants[last.body.participantId]
          /\ e.payload.totalParticipants
               = Cardinality(DOMAIN rooms[r].participants)
          /\ e.payload.totalParticipants
               = Cardinality(DOMAIN prev.rooms[r].participants) + 1
  /\ LastOk("leave") =>
       LET r == last.req.roomId
           p == last.req.participantId
           e == last.events[1]
       IN /\ e.name = "participant-left"
          /\ e.payload.participantId = p
          /\ e.payload.participant = prev.rooms[r].participants[p]
          /\ e.payload.totalParticipants
               = Cardinality(DOMAIN rooms[r].participants)
          /\ e.payload.totalParticipants
               = Cardinality(DOMAIN prev.rooms[r].participants) - 1
          /\ e.payload.isActive = rooms[r].isActive
          /\ e.payload.isActive
               <=> /\ prev.rooms[r].isActive
                   /\ p # prev.rooms[r].createdBy
                   /\ DOMAIN rooms[r].participants # {}

(* The creator left a room of three: the event reports two remaining
   participants and an inactive room. *)
C19_Witness ==
  /\ LastOk("leave")
  /\ last.events[1].payload.totalParticipants = 2
  /\ ~last.events[1].payload.isActive
  /\ prev.rooms[last.req.roomId].isActive

(* The song ids of a list of songs, in order. *)
SongOrder(queue) == [i \in 1 .. Len(queue) |-> queue[i].id]

(* C20: ranking changes nothing it reads.  Every stored queue is in
   insertion order (song ids are handed out in the order the songs are
   added); a join, castVote, getRoomState or leave leaves the queue of its
   room as it was, a join or getRoomState its votes too, and an addSong only
   appends the new song; and the order a join, addSong, castVote or
   getRoomState has reported is the order ranking the stored queue and
   votes once more gives. *)
C20_RankingIsPure ==
  /\ \A c \in DOMAIN rooms :
       \A i, j \in 1 .. Len(rooms[c].queue) :
         i < j => rooms[c].queue[i].id < rooms[c].queue[j].id
  /\ (last.op \in {"join", "vote", "getRoomState", "leave"}
        /\ last.req.roomId \in DOMAIN prev.rooms) =>
       /\ rooms[last.req.roomId].queue = prev.rooms[last.req.roomId].queue
       /\ last.op \in {"join", "getRoomState"} =>
            rooms[last.req.roomId].votes = prev.rooms[last.req.roomId].votes
  /\ LastOk("addSong") =>
       rooms[last.req.roomId].queue
         = Append(prev.rooms[last.req.roomId].queue, last.body)
  /\ LastOk("join") =>
       last.body.room.queue = Ranking(rooms[last.req.roomId])
  /\ LastOk("addSong") =>
       last.events[1].payload.queue = Ranking(rooms[last.req.roomId])
  /\ LastOk("vote") => last.body = Ranking(rooms[last.req.roomId])
  /\ LastOk("getRoomState") =>
       SongOrder(last.body.queue) = SongOrder(Ranking(rooms[last.req.roomId]))

(* getRoomState reported the song queued second ahead of the song queued
   first, and the stored queue still starts with the song queued first. *)
C20_Witness ==
  /\ LastOk("getRoomState")
  /\ Len(last.body.queue) = 2
  /\ last.body.queue[1].id = rooms[last.req.roomId].queue[2].id
  /\ last.body.queue[2].id = rooms[last.req.roomId].queue[1].id

(* The scenario of C21, as the state right after its last request: the
   creator (Alice) queued song A and the second participant (Bob) song B,
   both had voted up on B and Alice down on A, and Bob has now voted down
   on B. *)
VoteChangeScenario ==
  /\ LastOk("vote")
  /\ LET before == prev.rooms[last.req.roomId]
         alice == before.createdBy
         bob == last.req.participantId
     IN /\ bob # alice
        /\ Len(before.queue) = 2
        /\ before.queue[1].addedBy = alice
        /\ before.queue[2].addedBy = bob
        /\ last.req.songId = before.queue[2].id
        /\ last.req.vote = "down"
        /\ {before.votes[before.queue[2].id][i] :
              i \in 1 .. Len(before.votes[before.queue[2].id])}
             = {[participantId |-> alice, songId |-> before.queue[2].id,
                 vote |-> "up"],
                [participantId |-> bob, songId |-> before.queue[2].id,
                 vote |-> "up"]}
        /\ before.votes[before.queue[1].id]
             = <<[participantId |-> alice, songId |-> before.queue[1].id,
                  vote |-> "down"]>>

(* The score of the n-th song queued in the room of the latest request. *)
ScoreOfQueued(n) ==
  LET room == rooms[last.req.roomId]
  IN calculateSongScore(VotesGet(room.votes, room.queue[n].id))

(* C21 as stated: at the end of the scenario B's score is -1, A's score is
   -1 and the ranked queue has A before B. *)
C21_ScenarioTiesAtMinusOne ==
  VoteChangeScenario =>
    LET room == rooms[last.req.roomId]
    IN /\ ScoreOfQueued(2) = -1
       /\ ScoreOfQueued(1) = -1
       /\ last.body = <<room.queue[1], room.queue[2]>>

(* C21, amended: at the end of the scenario B's score is 0 (Alice's up vote
   and Bob's down vote), A's score is -1, and the ranked queue, in the
   response and in the vote-updated event, has B before A. *)
C21_ScenarioRanksBFirst ==
  VoteChangeScenario =>
    LET room == rooms[last.req.roomId]
    IN /\ ScoreOfQueued(2) = 0
       /\ ScoreOfQueued(1) = -1
       /\ last.body = <<room.queue[2], room.queue[1]>>
       /\ last.events[1].payload.queue = <<room.queue[2], room.queue[1]>>
       /\ Len(room.votes[room.queue[2].id]) = 2

(* The end of the scenario, Alice having voted on B before Bob did. *)
C21_Witness ==
  /\ VoteChangeScenario
  /\ prev.rooms[last.req.roomId].votes[last.req.songId][1].participantId
       = prev.rooms[last.req.roomId].createdBy

(* C22: a participant id maps to room code r in participantRooms if and only
   if r is a stored room whose participants hold that id. *)
C22_IndexAgreesWithStore ==
  /\ \A p \in DOMAIN participantRooms :
       /\ participantRooms[p] \in DOMAIN rooms
       /\ p \in DOMAIN rooms[participantRooms[p]].participants
  /\ \A r \in DOMAIN rooms :
       \A p \in DOMAIN rooms[r].participants :
         p \in DOMAIN participantRooms /\ participantRooms[p] = r

(* C23: every stored vote is a vote of a participant of its room; a valid
   castVote by an id that is not in the room, such as a participant who has
   left, is answered 403 and stores nothing; and the votes a participant
   cast before leaving are gone after the leave. *)
C23_VotesAreOfMembers ==
  /\ \A r \in DOMAIN rooms : \A s \in DOMAIN rooms[r].votes :
       \A i \in 1 .. Len(rooms[r].votes[s]) :
         rooms[r].votes[s][i].participantId \in DOMAIN rooms[r].participants
  /\ (/\ last.op = "vote"
      /\ last.req.vote \in {"up", "down"}
      /\ last.req.roomId \in DOMAIN prev.rooms
      /\ last.req.participantId
           \notin DOMAIN prev.rooms[last.req.roomId].participants)
       => /\ last.status = 403
          /\ rooms = prev.rooms
  /\ LastOk("leave") =>
       \A s \in DOMAIN rooms[last.req.roomId].votes :
         VotesOfOthers(rooms[last.req.roomId].votes[s], last.req.participantId)
           = rooms[last.req.roomId].votes[s]

(* A participant who had joined an active room and left it (the id was
   handed out after the creator's) voted and was refused, the room storing a
   vote of a participant who is still in it. *)
C23_Witness ==
  /\ last.op = "vote"
  /\ last.status = 403
  /\ last.req.participantId \in Allocated
  /\ LET room == rooms[last.req.roomId]
     IN /\ room.isActive
        /\ last.req.participantId > room.createdBy
        /\ \E s \in DOMAIN room.votes : room.votes[s] # << >>

(* C24: each handler and each run of the cleanup callback is one step.  A
   join with a name, an addSong or a valid castVote that names a room code
   the store does not hold, such as the code of a room the sweep has
   deleted, is answered 404 and changes neither map and publishes nothing;
   and a sweep removes every room it cleans together with the index entries
   of all participants the room has at that moment, those who joined before
   the sweep. *)
C24_SweepDoesNotRace ==
  /\ (/\ \/ last.op = "join" /\ last.req.name # ""
         \/ last.op = "addSong"
         \/ last.op = "vote" /\ last.req.vote \in {"up", "down"}
      /\ last.req.roomId \notin DOMAIN prev.rooms)
       => /\ last.status = 404
          /\ last.error = "Room not found"
          /\ rooms = prev.rooms
          /\ participantRooms = prev.participantRooms
          /\ last.events = << >>
  /\ last.op = "sweep" =>
       /\ DOMAIN rooms = DOMAIN prev.rooms \ last.body
       /\ \A c \in last.body :
            /\ c \in DOMAIN prev.rooms
            /\ \A p \in DOMAIN prev.rooms[c].participants :
                 p \notin DOMAIN participantRooms

(* A join was answered 404 after a sweep had deleted the room with the two
   participants it had: both ids were handed out, and neither map holds
   anything. *)
C24_Witness ==
  /\ last.op = "join"
  /\ last.status = 404
  /\ last.req.name # ""
  /\ nextParticipant = 3
  /\ rooms = EmptyMap
  /\ participantRooms = EmptyMap

(* The room created by participant p is stored. *)
RoomOfCreatorStored(p) ==
  \E c \in DOMAIN rooms : rooms[c].createdBy = p

(* The room created by p is stored and due for removal within the instants
   of TimePoints: it is inactive, or it was created at instant 0, so that
   the clock can pass its retention window. *)
RoomOfCreatorDue(p) ==
  \E c \in DOMAIN rooms :
    /\ rooms[c].createdBy = p
    /\ ~rooms[c].isActive \/ rooms[c].createdAt = 0

(* C25: with the clock advancing and the cleanup timer firing again and
   again, every stored room that is inactive, and every room created at
   instant 0 whether it stays active or not, is eventually no longer stored,
   whatever joins, song additions, votes and leaves happen meanwhile; and no
   run of the cleanup callback leaves behind a room that is inactive or
   older than the retention window. *)
C25_RoomsAreEventuallyRemoved ==
  /\ \A p \in SweepParticipantIds :
       RoomOfCreatorDue(p) ~> ~RoomOfCreatorStored(p)
  /\ [](last.op = "sweep" =>
          \A c \in DOMAIN rooms :
            /\ rooms[c].isActive
            /\ now - rooms[c].createdAt <= RetentionWindow)

(* A run of the cleanup callback deleted a room that was still active, past
   its retention window, and held two participants, a song and a vote. *)
C25_Witness ==
  /\ last.op = "sweep"
  /\ \E c \in last.body :
       /\ prev.rooms[c].isActive
       /\ now - prev.rooms[c].createdAt > RetentionWindow
       /\ Cardinality(DOMAIN prev.rooms[c].participants) = 2
       /\ prev.rooms[c].queue # << >>
       /\ \E s \in DOMAIN prev.rooms[c].votes : prev.rooms[c].votes[s] # << >>

(* C26: a stored room is active if and only if its creator is among its
   participants, so an active room is not empty; and a leave that turns
   isActive from true to false is the creator's leave: the test for an empty
   room alone never deactivates a room. *)
C26_ActiveIffCreatorPresent ==
  /\ \A c \in DOMAIN rooms :
       /\ rooms[c].isActive
            <=> rooms[c].createdBy \in DOMAIN rooms[c].participants
       /\ rooms[c].isActive => DOMAIN rooms[c].participants # {}
  /\ (/\ LastOk("leave")
      /\ prev.rooms[last.req.roomId].isActive
      /\ ~rooms[last.req.roomId].isActive)
       => last.req.participantId = prev.rooms[last.req.roomId].createdBy

(* The last participant left a room its creator had left before: the room,
   now empty, was inactive already. *)
C26_Witness ==
  /\ LastOk("leave")
  /\ DOMAIN rooms[last.req.roomId].participants = {}
  /\ ~prev.rooms[last.req.roomId].isActive
  /\ last.req.participantId # rooms[last.req.roomId].createdBy

(* C27: across every step, a room that stays stored keeps the songs it had,
   in their places and unchanged; its queue grows only by a successful
   addSong, by exactly one song at the end, whose id no song of the room had
   and whose vote list is empty; and a leave leaves the queue as it was: the
   leaver's songs stay, addedBy naming an id that is no longer in the room,
   with the votes the others have cast on them. *)
C27_QueueIsAppendOnly ==
  /\ \A c \in Codes :
       SameRoom(c) =>
         /\ Len(rooms[c].queue) >= Len(prev.rooms[c].queue)
         /\ SubSeq(rooms[c].queue, 1, Len(prev.rooms[c].queue))
              = prev.rooms[c].queue
         /\ rooms[c].queue # prev.rooms[c].queue
              => LastOk("addSong") /\ last.req.roomId = c
  /\ LastOk("addSong") =>
       LET before == prev.rooms[last.req.roomId]
           after == rooms[last.req.roomId]
       IN /\ after.queue = Append(before.queue, last.body)
          /\ last.body.id \notin QueuedSongIds(before)
          /\ last.body.addedBy = last.req.participantId
          /\ after.votes[last.body.id] = << >>
  /\ LastOk("leave") =>
       LET before == prev.rooms[last.req.roomId]
           after == rooms[last.req.roomId]
       IN /\ after.queue = before.queue
          /\ \A i \in 1 .. Len(after.queue) :
               after.queue[i].addedBy = last.req.participantId =>
                 /\ after.queue[i].addedBy \notin DOMAIN after.participants
                 /\ after.votes[after.queue[i].id]
                      = VotesOfOthers(before.votes[after.queue[i].id],
                                      last.req.participantId)

(* A participant left a room whose queue holds a song of another participant
   ahead of a song the leaver added, on which a remaining participant has a
   vote. *)
C27_Witness ==
  /\ LastOk("leave")
  /\ LET room == rooms[last.req.roomId]
     IN /\ Len(room.queue) = 2
        /\ room.queue[1].addedBy # last.req.participantId
        /\ room.queue[2].addedBy = last.req.participantId
        /\ room.votes[room.queue[2].id] # << >>

====
